---- MODULE Spec2Model ----
(***************************************************************************)
(* Model of the DD grid layout of leftwm-core (layouts/dd.rs, `update`).   *)
(*                                                                         *)
(* A window manager holds a workspace, a tag (two flip flags) and an       *)
(* ordered list of windows.  It calls update(workspace, tag, windows)      *)
(* whenever the tag has to be laid out again; the tag's flags may differ   *)
(* from one call to the next, the workspace and the list stay the same.    *)
(* One call is modelled step by step: one action per loop iteration of     *)
(* the source.  `frame` holds the locals of the running call under the     *)
(* names the source gives them.                                            *)
(*                                                                         *)
(* `trace`, `columns` and `layouts` are history variables: the list of     *)
(* placements of the running call, the per-column locals of the running    *)
(* call, and, for each tag value, what the last finished call with that    *)
(* tag left behind.                                                        *)
(*                                                                         *)
(* All quantities are i32 in the source.  The inputs enumerated here are   *)
(* screen geometries, far from the i32 range, and every division has       *)
(* non-negative operands, so \div coincides with Rust's `/`.               *)
(***************************************************************************)
EXTENDS Integers, Sequences, FiniteSets

\* Largest length of the window list that is enumerated.
MaxWindows == 7

\* The workspace of the reference scenarios: origin (0,0), 800x600, no limit.
RefWorkspace ==
    [x |-> 0, y |-> 0, width |-> 800, height |-> 600, max_window_width |-> 0]

\* Workspaces the calls are made on: the reference one, one with an offset
\* origin, a width limit and remainder pixels in both directions, and one
\* lower than the number of rows of a column.
Workspaces ==
    { RefWorkspace,
      [x |-> 10, y |-> 20, width |-> 100, height |-> 50, max_window_width |-> 30],
      [x |-> 3, y |-> 5, width |-> 64, height |-> 2, max_window_width |-> 0] }

Tags == [flipped_horizontal : BOOLEAN, flipped_vertical : BOOLEAN]

Min(a, b) == IF a < b THEN a ELSE b

\* Workspace::width_limited: the width reserved for `cols` columns
\* (max_window_width = 0 stands for "no limit").
width_limited(ws, cols) ==
    IF ws.max_window_width = 0
    THEN ws.width
    ELSE Min(ws.max_window_width * cols, ws.width)

\* Workspace::x_limited: the left edge of the limited, centred rectangle.
x_limited(ws, cols) ==
    IF ws.max_window_width = 0
    THEN ws.x
    ELSE ws.x + (ws.width - width_limited(ws, cols)) \div 2

\* A window as update sees it: the four fields it writes.
Window(x, y, width, height) ==
    [x |-> x, y |-> y, width |-> width, height |-> height]

\* dd.rs:45
ChatWindowCount(window_count) == window_count \div 2

\* dd.rs:46-50
VideoWindowCount(window_count) ==
    IF window_count % 2 = 1
    THEN window_count \div 2 + 1
    ELSE window_count \div 2

\* dd.rs:51
VirtualWindowCount(window_count) ==
    ChatWindowCount(window_count) * 2 + VideoWindowCount(window_count)

NumColsOneMore(virtual_window_count) ==
    (CHOOSE c \in 0..virtual_window_count :
        /\ c * c >= virtual_window_count
        /\ \A d \in 0..(c - 1) : d * d < virtual_window_count) + 1

\* dd.rs:54, (virtual_window_count as f32).sqrt().ceil() as i32.  The
\* conversion to f32 is exact below 2^24 and the correctly rounded square
\* root of a non-square below 2^23 is never an integer, so in the range
\* enumerated here the result is the least c with c*c >= the argument.
NumCols(virtual_window_count) ==
    CHOOSE c \in 0..virtual_window_count :
        /\ c * c >= virtual_window_count
        /\ \A d \in 0..(c - 1) : d * d < virtual_window_count

RowsInColCeil(remaining_virtual_windows, remaining_columns) ==
    (remaining_virtual_windows + remaining_columns - 1) \div remaining_columns

RowsInColUnderfill(remaining_virtual_windows, remaining_columns) ==
    (remaining_virtual_windows - 1) \div remaining_columns

\* dd.rs:63
RowsInCol(remaining_virtual_windows, remaining_columns) ==
    remaining_virtual_windows \div remaining_columns

ChatRowsUncapped(remaining_chat_windows, num_virtual_rows_in_this_col) ==
    num_virtual_rows_in_this_col \div 2

\* dd.rs:64
ChatRows(remaining_chat_windows, num_virtual_rows_in_this_col) ==
    Min(remaining_chat_windows, num_virtual_rows_in_this_col \div 2)

VideoRowsSingle(num_virtual_rows_in_this_col, num_chat_rows_in_this_col) ==
    num_virtual_rows_in_this_col - num_chat_rows_in_this_col

\* dd.rs:65
VideoRows(num_virtual_rows_in_this_col, num_chat_rows_in_this_col) ==
    num_virtual_rows_in_this_col - num_chat_rows_in_this_col * 2

PosXUnflipped(t, num_cols, col) == col

\* dd.rs:72-76
PosX(t, num_cols, col) ==
    IF t.flipped_horizontal THEN num_cols - col - 1 ELSE col

\* dd.rs:86-90
ChatPosY(t, num_virtual_rows_in_this_col, row) ==
    IF t.flipped_vertical
    THEN num_virtual_rows_in_this_col - row - 1
    ELSE row

VideoPosYRawRows(t, num_virtual_rows_in_this_col, num_chat_rows_in_this_col, row) ==
    IF t.flipped_vertical
    THEN num_virtual_rows_in_this_col - num_chat_rows_in_this_col - row - 1
    ELSE row + num_chat_rows_in_this_col

\* dd.rs:106-110
VideoPosY(t, num_virtual_rows_in_this_col, num_chat_rows_in_this_col, row) ==
    IF t.flipped_vertical
    THEN num_virtual_rows_in_this_col - num_chat_rows_in_this_col - row - 1
    ELSE row + num_chat_rows_in_this_col * 2

\* The locals of a call before it has computed anything.
ZeroFrame ==
    [window_count |-> 0, chat_window_count |-> 0, video_window_count |-> 0,
     virtual_window_count |-> 0, num_cols |-> 0, iter |-> 0,
     remaining_virtual_windows |-> 0, remaining_chat_windows |-> 0,
     remaining_video_windows |-> 0, col |-> 0, row |-> 0,
     remaining_columns |-> 0,
     num_virtual_rows_in_this_col |-> 0, num_chat_rows_in_this_col |-> 0,
     num_video_rows_in_this_col |-> 0, virtual_win_height |-> 0,
     chat_win_height |-> 0, video_win_height |-> 0, win_width |-> 0,
     pos_x |-> 0]

\* What is remembered of a tag value no call has finished with yet.
NoLayout ==
    [done |-> FALSE, early |-> FALSE, windows |-> <<>>, trace |-> <<>>,
     columns |-> <<>>, frame |-> ZeroFrame]

VARIABLES
    workspace,  \* the Workspace passed to update
    windows,    \* the window list, in the caller's order
    tag,        \* the Tag passed to the running (or last) call
    pc,         \* "idle", "col", "chat", "video" or "panic"
    frame,      \* the locals of the running call
    trace,      \* placements of the running call, in the order made
    columns,    \* per-column locals of the running call, in the order entered
    layouts     \* per tag value, the outcome of the last finished call

vars == <<workspace, windows, tag, pc, frame, trace, columns, layouts>>

Init ==
    /\ workspace \in Workspaces
    /\ \E n \in 0..MaxWindows : windows = [i \in 1..n |-> Window(0, 0, 0, 0)]
    /\ tag \in {[flipped_horizontal |-> FALSE, flipped_vertical |-> FALSE]}
    /\ pc = "idle"
    /\ frame = ZeroFrame
    /\ trace = <<>>
    /\ columns = <<>>
    /\ layouts = [t \in Tags |-> NoLayout]

\* What a call that ends with the list `ws`, early or not, leaves behind.
Outcome(early, ws) ==
    [done |-> TRUE, early |-> early, windows |-> ws, trace |-> trace,
     columns |-> columns, frame |-> frame]

\* dd.rs:43-59: the caller invokes update with tag t; the counts, the
\* number of columns, the iterator and the remaining counters are set up.
Call(t) ==
    /\ pc = "idle"
    /\ tag' = t
    /\ LET window_count == Len(windows)
           virtual_window_count == VirtualWindowCount(window_count)
       IN frame' = [ZeroFrame EXCEPT
              !.window_count = window_count,
              !.chat_window_count = ChatWindowCount(window_count),
              !.video_window_count = VideoWindowCount(window_count),
              !.virtual_window_count = virtual_window_count,
              !.num_cols = NumCols(virtual_window_count),
              !.iter = 0,
              !.remaining_virtual_windows = virtual_window_count,
              !.remaining_chat_windows = ChatWindowCount(window_count),
              !.remaining_video_windows = VideoWindowCount(window_count),
              !.col = 0]
    /\ trace' = <<>>
    /\ columns' = <<>>
    /\ pc' = "col"
    /\ UNCHANGED <<workspace, windows, layouts>>

\* dd.rs:60-76: one more column; its row counts, heights, width and slot.
\* The two divisions panic on a zero divisor.
EnterColumn ==
    /\ pc = "col"
    /\ frame.col < frame.num_cols
    /\ LET remaining_columns == frame.num_cols - frame.col
           rows == RowsInCol(frame.remaining_virtual_windows, remaining_columns)
           chat == ChatRows(frame.remaining_chat_windows, rows)
           video == VideoRows(rows, chat)
       IN IF remaining_columns = 0 \/ rows = 0 \/ frame.num_cols = 0
          THEN /\ pc' = "panic"
               /\ frame' = [frame EXCEPT
                      !.remaining_columns = remaining_columns,
                      !.num_virtual_rows_in_this_col = rows]
               /\ UNCHANGED columns
          ELSE LET virtual_win_height == workspace.height \div rows
                   win_width ==
                       width_limited(workspace, frame.num_cols) \div frame.num_cols
                   pos_x == PosX(tag, frame.num_cols, frame.col)
               IN /\ frame' = [frame EXCEPT
                         !.remaining_columns = remaining_columns,
                         !.num_virtual_rows_in_this_col = rows,
                         !.num_chat_rows_in_this_col = chat,
                         !.num_video_rows_in_this_col = video,
                         !.virtual_win_height = virtual_win_height,
                         !.chat_win_height = virtual_win_height * 2,
                         !.video_win_height = virtual_win_height,
                         !.win_width = win_width,
                         !.pos_x = pos_x,
                         !.row = 0]
                  /\ columns' = Append(columns,
                         [rows |-> rows, chat |-> chat, video |-> video,
                          virtual_win_height |-> virtual_win_height,
                          win_width |-> win_width, pos_x |-> pos_x,
                          remaining_columns |-> remaining_columns,
                          remaining_chat_windows |-> frame.remaining_chat_windows])
                  /\ pc' = "chat"
    /\ UNCHANGED <<workspace, windows, tag, trace, layouts>>

\* dd.rs:79-96: one iteration of the chat loop.  iter.next() yields the
\* next window of the list, or None, on which update returns.
PlaceChat ==
    /\ pc = "chat"
    /\ frame.row < frame.num_chat_rows_in_this_col
    /\ IF frame.iter >= Len(windows)
       THEN /\ layouts' = [layouts EXCEPT ![tag] = Outcome(TRUE, windows)]
            /\ pc' = "idle"
            /\ UNCHANGED <<windows, frame, trace>>
       ELSE LET idx == frame.iter + 1
                pos_y == ChatPosY(tag, frame.num_virtual_rows_in_this_col, frame.row)
            IN /\ windows' = [windows EXCEPT ![idx] =
                      Window(x_limited(workspace, frame.num_cols)
                                 + frame.win_width * frame.pos_x,
                             workspace.y + frame.chat_win_height * pos_y,
                             frame.win_width,
                             frame.chat_win_height)]
               /\ trace' = Append(trace,
                      [idx |-> idx, role |-> "chat", col |-> frame.col,
                       row |-> frame.row])
               /\ frame' = [frame EXCEPT
                      !.iter = @ + 1,
                      !.remaining_virtual_windows = @ - 2,
                      !.remaining_chat_windows = @ - 1,
                      !.row = @ + 1]
               /\ UNCHANGED <<pc, layouts>>
    /\ UNCHANGED <<workspace, tag, columns>>

\* dd.rs:79 and 99: the chat loop is over, the video loop starts at row 0.
EndChat ==
    /\ pc = "chat"
    /\ frame.row >= frame.num_chat_rows_in_this_col
    /\ frame' = [frame EXCEPT !.row = 0]
    /\ pc' = "video"
    /\ UNCHANGED <<workspace, windows, tag, trace, columns, layouts>>

\* dd.rs:99-116: one iteration of the video loop.
PlaceVideo ==
    /\ pc = "video"
    /\ frame.row < frame.num_video_rows_in_this_col
    /\ IF frame.iter >= Len(windows)
       THEN /\ layouts' = [layouts EXCEPT ![tag] = Outcome(TRUE, windows)]
            /\ pc' = "idle"
            /\ UNCHANGED <<windows, frame, trace>>
       ELSE LET idx == frame.iter + 1
                pos_y == VideoPosY(tag, frame.num_virtual_rows_in_this_col,
                                   frame.num_chat_rows_in_this_col, frame.row)
            IN /\ windows' = [windows EXCEPT ![idx] =
                      Window(x_limited(workspace, frame.num_cols)
                                 + frame.win_width * frame.pos_x,
                             workspace.y + frame.video_win_height * pos_y,
                             frame.win_width,
                             frame.video_win_height)]
               /\ trace' = Append(trace,
                      [idx |-> idx, role |-> "video", col |-> frame.col,
                       row |-> frame.row])
               /\ frame' = [frame EXCEPT
                      !.iter = @ + 1,
                      !.remaining_virtual_windows = @ - 1,
                      !.remaining_video_windows = @ - 1,
                      !.row = @ + 1]
               /\ UNCHANGED <<pc, layouts>>
    /\ UNCHANGED <<workspace, tag, columns>>

\* dd.rs:99 and 60: the video loop is over, the column loop advances.
EndVideo ==
    /\ pc = "video"
    /\ frame.row >= frame.num_video_rows_in_this_col
    /\ frame' = [frame EXCEPT !.col = @ + 1]
    /\ pc' = "col"
    /\ UNCHANGED <<workspace, windows, tag, trace, columns, layouts>>

\* dd.rs:60 and 118: no column is left, update returns.
Return ==
    /\ pc = "col"
    /\ frame.col >= frame.num_cols
    /\ layouts' = [layouts EXCEPT ![tag] = Outcome(FALSE, windows)]
    /\ pc' = "idle"
    /\ UNCHANGED <<workspace, windows, tag, frame, trace, columns>>

Next ==
    \/ \E t \in Tags : Call(t)
    \/ EnterColumn
    \/ PlaceChat
    \/ EndChat
    \/ PlaceVideo
    \/ EndVideo
    \/ Return

Spec == Init /\ [][Next]_vars


(***************************************************************************)
(* Vocabulary of the properties.                                           *)
(***************************************************************************)

UnflippedV(fh) == [flipped_horizontal |-> fh, flipped_vertical |-> FALSE]
FlippedV(fh) == [flipped_horizontal |-> fh, flipped_vertical |-> TRUE]
UnflippedH(fv) == [flipped_horizontal |-> FALSE, flipped_vertical |-> fv]
FlippedH(fv) == [flipped_horizontal |-> TRUE, flipped_vertical |-> fv]

\* The positions of L.trace that were placed in the k-th column entered.
InColumn(L, k) == {i \in 1..Len(L.trace) : L.trace[i].col = k - 1}

\* The window the i-th placement of L wrote.
Placed(L, i) == L.windows[L.trace[i].idx]

\* The positions of L.trace with the given role.
WithRole(L, role) == {i \in 1..Len(L.trace) : L.trace[i].role = role}

\* The call behind L placed the k-th window of the list k-th, and all of them.
InListOrder(L) ==
    /\ Len(L.trace) = Len(L.windows)
    /\ \A k \in 1..Len(L.trace) : L.trace[k].idx = k

RECURSIVE Requested(_)
\* The number of windows the columns cs asked the iterator for.
Requested(cs) ==
    IF cs = <<>> THEN 0 ELSE cs[1].chat + cs[1].video + Requested(Tail(cs))

RECURSIVE RowsTotal(_)
\* The number of virtual rows of the columns cs.
RowsTotal(cs) ==
    IF cs = <<>> THEN 0 ELSE cs[1].rows + RowsTotal(Tail(cs))

\* The vertical extents of a and b do not overlap.
DisjointY(a, b) == a.y + a.height <= b.y \/ b.y + b.height <= a.y

\* The rectangles of the call behind L tile the limited workspace rectangle,
\* column by column.
Tiles(L) ==
    LET xl == x_limited(workspace, L.frame.num_cols)
    IN /\ InListOrder(L)
       /\ \A k \in 1..Len(L.columns) :
            LET C == L.columns[k]
                E == InColumn(L, k)
                top == workspace.y
            IN /\ \A i \in E :
                    /\ Placed(L, i).width = C.win_width
                    /\ Placed(L, i).x = xl + C.win_width * C.pos_x
                    /\ Placed(L, i).y >= top
                    /\ Placed(L, i).y + Placed(L, i).height
                           <= top + workspace.height
                    /\ Placed(L, i).y + Placed(L, i).height
                           <= top + C.rows * C.virtual_win_height
               /\ \A i, j \in E :
                    i # j => DisjointY(Placed(L, i), Placed(L, j))
               /\ C.virtual_win_height > 0 =>
                    \A r \in 0..(C.rows - 1) :
                        Cardinality({i \in E :
                            /\ Placed(L, i).y <= top + r * C.virtual_win_height
                            /\ top + (r + 1) * C.virtual_win_height
                                   <= Placed(L, i).y + Placed(L, i).height}) = 1
       /\ \A k1, k2 \in 1..Len(L.columns) :
            k1 # k2 => L.columns[k1].pos_x # L.columns[k2].pos_x
       /\ \A k \in 1..Len(L.columns) :
            L.columns[k].pos_x \in 0..(L.frame.num_cols - 1)

(***************************************************************************)
(* The properties.                                                         *)
(***************************************************************************)

\* C1: for every window_count >= 1, workspace and flip combination, after
\* update returns the rectangles tile the limited workspace rectangle: in
\* each column the windows have width win_width and x = x_limited + win_width
\* * pos_x, their vertical extents are pairwise disjoint, inside the
\* workspace, and cover [workspace.y, workspace.y + rows_in_col *
\* virtual_win_height); distinct columns have distinct pos_x.
C1_TilingAllFlips ==
    \A t \in Tags :
        (layouts[t].done /\ Len(windows) >= 1) => Tiles(layouts[t])

\* C2: every window of the list is assigned exactly once, the k-th assignment
\* going to the k-th window; the early return on an exhausted iterator is
\* never taken, and the windows requested over all columns number
\* window_count.
C2_EveryWindowOnceInOrder ==
    /\ Len(trace) <= Len(windows)
    /\ \A k \in 1..Len(trace) : trace[k].idx = k
    /\ (pc = "chat" /\ frame.row < frame.num_chat_rows_in_this_col)
           => frame.iter < Len(windows)
    /\ (pc = "video" /\ frame.row < frame.num_video_rows_in_this_col)
           => frame.iter < Len(windows)
    /\ \A t \in Tags :
          layouts[t].done =>
              /\ ~layouts[t].early
              /\ InListOrder(layouts[t])
              /\ Len(layouts[t].windows) = Len(windows)
              /\ Requested(layouts[t].columns) = Len(windows)

C2_Witness ==
    /\ layouts[FlippedV(TRUE)].done
    /\ Len(windows) >= 5
    /\ Len(layouts[FlippedV(TRUE)].trace) = Len(windows)

\* C3: chat_count + video_count = window_count with chat_count = floor(n/2)
\* and video_count = ceil(n/2); over the whole call exactly chat_count
\* windows are placed by the chat pass (double height) and video_count by the
\* video pass (single height), each window by exactly one pass, and the three
\* remaining counters are 0 when update returns.
C3_CountConservation ==
    /\ pc # "idle" =>
          /\ frame.chat_window_count + frame.video_window_count = Len(windows)
          /\ frame.chat_window_count = Len(windows) \div 2
          /\ frame.video_window_count = (Len(windows) + 1) \div 2
    /\ \A t \in Tags :
          layouts[t].done =>
              LET L == layouts[t]
              IN /\ Cardinality(WithRole(L, "chat")) = Len(windows) \div 2
                 /\ Cardinality(WithRole(L, "video")) = (Len(windows) + 1) \div 2
                 /\ \A w \in 1..Len(windows) :
                       Cardinality({i \in 1..Len(L.trace) : L.trace[i].idx = w}) = 1
                 /\ \A i \in WithRole(L, "chat") :
                       Placed(L, i).height
                           = 2 * L.columns[L.trace[i].col + 1].virtual_win_height
                 /\ \A i \in WithRole(L, "video") :
                       Placed(L, i).height
                           = L.columns[L.trace[i].col + 1].virtual_win_height
                 /\ L.frame.remaining_virtual_windows = 0
                 /\ L.frame.remaining_chat_windows = 0
                 /\ L.frame.remaining_video_windows = 0

C3_Witness ==
    /\ layouts[UnflippedV(TRUE)].done
    /\ Len(windows) = 5
    /\ Cardinality(WithRole(layouts[UnflippedV(TRUE)], "chat")) = 2
    /\ Cardinality(WithRole(layouts[UnflippedV(TRUE)], "video")) = 3

\* C4: update never divides by zero: with window_count = 0 the virtual count
\* and num_cols are 0 and no column is entered; with window_count >= 1, in
\* every column iteration num_cols >= 1, remaining_columns >= 1 and
\* rows_in_col >= 1.
C4_NoZeroDivisor ==
    /\ pc # "panic"
    /\ (Len(windows) = 0 /\ pc # "idle") =>
          /\ frame.virtual_window_count = 0
          /\ frame.num_cols = 0
          /\ columns = <<>>
          /\ pc = "col"
    /\ (pc = "col" /\ frame.col < frame.num_cols) =>
          /\ frame.num_cols - frame.col >= 1
          /\ frame.remaining_virtual_windows \div (frame.num_cols - frame.col) >= 1
    /\ pc \in {"chat", "video"} =>
          /\ frame.num_cols >= 1
          /\ frame.remaining_columns >= 1
          /\ frame.num_virtual_rows_in_this_col >= 1

C4_Witness ==
    /\ pc = "chat"
    /\ frame.num_cols >= 3
    /\ frame.col = frame.num_cols - 1
    /\ frame.num_virtual_rows_in_this_col >= 1

\* C5: running update with flipped_vertical = true instead of false leaves
\* every window's x, width and height unchanged and mirrors its vertical
\* extent about the column's occupied span: y_flipped = workspace.y +
\* rows_in_col * virtual_win_height - (y_unflipped - workspace.y) - height,
\* all windows remaining inside the workspace.
C5_VerticalFlipMirrors ==
    \A fh \in BOOLEAN :
        LET U == layouts[UnflippedV(fh)]
            F == layouts[FlippedV(fh)]
        IN (U.done /\ F.done /\ InListOrder(U) /\ InListOrder(F)) =>
              \A i \in 1..Len(windows) :
                  LET C == U.columns[U.trace[i].col + 1]
                  IN /\ F.windows[i].x = U.windows[i].x
                     /\ F.windows[i].width = U.windows[i].width
                     /\ F.windows[i].height = U.windows[i].height
                     /\ F.windows[i].y =
                            workspace.y + C.rows * C.virtual_win_height
                              - (U.windows[i].y - workspace.y)
                              - U.windows[i].height
                     /\ F.windows[i].y >= workspace.y
                     /\ F.windows[i].y + F.windows[i].height
                            <= workspace.y + workspace.height

\* C6: running update with flipped_horizontal = true instead of false maps
\* each window's slot from col to num_cols-1-col, x_flipped = x_limited +
\* win_width*(num_cols-1) - (x_unflipped - x_limited), and leaves every
\* window's y, width, height and column unchanged.
C6_HorizontalFlipMirrors ==
    \A fv \in BOOLEAN :
        LET U == layouts[UnflippedH(fv)]
            F == layouts[FlippedH(fv)]
            nc == U.frame.num_cols
            xl == x_limited(workspace, nc)
        IN (U.done /\ F.done) =>
              /\ InListOrder(U)
              /\ InListOrder(F)
              /\ F.frame.num_cols = nc
              /\ Len(F.columns) = Len(U.columns)
              /\ \A k \in 1..Len(U.columns) :
                    /\ U.columns[k].pos_x = k - 1
                    /\ F.columns[k].pos_x = nc - 1 - (k - 1)
              /\ \A i \in 1..Len(windows) :
                    LET C == U.columns[U.trace[i].col + 1]
                    IN /\ F.trace[i].col = U.trace[i].col
                       /\ F.windows[i].x =
                              xl + C.win_width * (nc - 1) - (U.windows[i].x - xl)
                       /\ F.windows[i].y = U.windows[i].y
                       /\ F.windows[i].width = U.windows[i].width
                       /\ F.windows[i].height = U.windows[i].height

C6_Witness ==
    /\ layouts[UnflippedH(FALSE)].done
    /\ layouts[FlippedH(FALSE)].done
    /\ Len(windows) >= 4
    /\ layouts[FlippedH(FALSE)].windows[1].x
           > layouts[UnflippedH(FALSE)].windows[1].x

\* C7 as stated: the number of column iterations satisfies
\* num_cols <= ceil(sqrt(window_count)).
C7_LoopBoundWindowCount ==
    pc # "idle" =>
        /\ Len(columns) <= frame.num_cols
        /\ \/ frame.num_cols = 0
           \/ (frame.num_cols - 1) * (frame.num_cols - 1) < Len(windows)

\* C7 as amended: the number of column iterations is at most num_cols, and
\* num_cols <= ceil(sqrt(virtual_window_count)), where virtual_window_count
\* = 2*floor(window_count/2) + ceil(window_count/2).
C7_LoopBoundVirtualCount ==
    pc # "idle" =>
        /\ Len(columns) <= frame.num_cols
        /\ frame.col <= frame.num_cols
        /\ \/ frame.num_cols = 0
           \/ (frame.num_cols - 1) * (frame.num_cols - 1)
                  < Len(windows) + Len(windows) \div 2

C7_Witness ==
    /\ pc = "col"
    /\ Len(windows) = 4
    /\ frame.num_cols = 3
    /\ frame.col = 3
    /\ Len(columns) = 3

\* C8: on the workspace (0,0) 800x600 without limit or flip, 1 window gets
\* (0,0,800,600); 3 windows give 2 columns, the first window at (0,0) 400x600
\* and the next two at x=400, 400x300, y=0 and y=300; 7 windows (virtual
\* count 10) give 4 columns of width 200: columns 0 and 1 one 600-high window
\* each, column 2 a 400-high window at y=0 above a 200-high one at y=400,
\* column 3 three 200-high windows at y=0, 200, 400.
C8_ReferenceOutputs ==
    LET L == layouts[UnflippedV(FALSE)]
    IN (workspace = RefWorkspace /\ L.done) =>
          /\ Len(windows) = 1 =>
                /\ L.frame.num_cols = 1
                /\ L.windows = <<Window(0, 0, 800, 600)>>
          /\ Len(windows) = 3 =>
                /\ L.frame.num_cols = 2
                /\ L.windows = <<Window(0, 0, 400, 600),
                                 Window(400, 0, 400, 300),
                                 Window(400, 300, 400, 300)>>
          /\ Len(windows) = 7 =>
                /\ L.frame.virtual_window_count = 10
                /\ L.frame.num_cols = 4
                /\ L.windows = <<Window(0, 0, 200, 600),
                                 Window(200, 0, 200, 600),
                                 Window(400, 0, 200, 400),
                                 Window(400, 400, 200, 200),
                                 Window(600, 0, 200, 200),
                                 Window(600, 200, 200, 200),
                                 Window(600, 400, 200, 200)>>

C8_Witness ==
    /\ workspace = RefWorkspace
    /\ Len(windows) = 7
    /\ layouts[UnflippedV(FALSE)].done
    /\ layouts[UnflippedV(FALSE)].windows[4].y = 400

\* C9: in every column the chat windows are taken from the list before the
\* video windows; the placement order and the per-column chat/video counts
\* are the same for both values of flipped_vertical (only y depends on the
\* flag); with flipped_vertical = false every chat window of a column lies
\* entirely above every video window of that column.
C9_ChatBeforeVideo ==
    /\ \A t \in Tags :
          layouts[t].done =>
              LET L == layouts[t]
              IN \A i, j \in 1..Len(L.trace) :
                    ( /\ L.trace[i].col = L.trace[j].col
                      /\ L.trace[i].role = "chat"
                      /\ L.trace[j].role = "video" ) =>
                        /\ L.trace[i].idx < L.trace[j].idx
                        /\ ~t.flipped_vertical =>
                              Placed(L, i).y + Placed(L, i).height
                                  <= Placed(L, j).y
    /\ \A fh \in BOOLEAN :
          LET U == layouts[UnflippedV(fh)]
              F == layouts[FlippedV(fh)]
          IN (U.done /\ F.done) =>
                /\ F.trace = U.trace
                /\ Len(F.columns) = Len(U.columns)
                /\ \A k \in 1..Len(U.columns) :
                      /\ F.columns[k].chat = U.columns[k].chat
                      /\ F.columns[k].video = U.columns[k].video
                /\ Len(F.windows) = Len(U.windows)
                /\ \A i \in 1..Len(U.windows) :
                      /\ F.windows[i].x = U.windows[i].x
                      /\ F.windows[i].width = U.windows[i].width
                      /\ F.windows[i].height = U.windows[i].height

C9_Witness ==
    /\ layouts[UnflippedV(FALSE)].done
    /\ layouts[FlippedV(FALSE)].done
    /\ Len(windows) = 6
    /\ workspace.height >= 3
    /\ layouts[UnflippedV(FALSE)].columns[1].chat = 1
    /\ layouts[UnflippedV(FALSE)].columns[1].video = 1
    /\ layouts[FlippedV(FALSE)].windows[1].y
           # layouts[UnflippedV(FALSE)].windows[1].y

\* C10: for every window_count >= 1 the per-column virtual row counts are
\* non-decreasing from left to right, any two differ by at most 1, each
\* column consumes exactly rows_in_col virtual slots (2*chat + video = rows,
\* video >= 0, chat <= remaining_chat_windows), the rows of all columns sum
\* to virtual_count, and num_cols is the least c with c*c >= virtual_count.
C10_ColumnBalancing ==
    \A t \in Tags :
        (layouts[t].done /\ Len(windows) >= 1) =>
            LET L == layouts[t]
                cs == L.columns
                nc == L.frame.num_cols
                V == Len(windows) + Len(windows) \div 2
            IN /\ Len(cs) = nc
               /\ \A k \in 1..(Len(cs) - 1) : cs[k].rows <= cs[k + 1].rows
               /\ \A k1, k2 \in 1..Len(cs) : cs[k1].rows - cs[k2].rows <= 1
               /\ \A k \in 1..Len(cs) :
                     /\ 2 * cs[k].chat + cs[k].video = cs[k].rows
                     /\ cs[k].video >= 0
                     /\ cs[k].chat >= 0
                     /\ cs[k].chat <= cs[k].remaining_chat_windows
               /\ RowsTotal(cs) = V
               /\ L.frame.virtual_window_count = V
               /\ nc * nc >= V
               /\ (nc - 1) * (nc - 1) < V

C10_Witness ==
    /\ layouts[UnflippedV(FALSE)].done
    /\ Len(windows) = 7
    /\ Len(layouts[UnflippedV(FALSE)].columns) = 4
    /\ layouts[UnflippedV(FALSE)].columns[1].rows = 2
    /\ layouts[UnflippedV(FALSE)].columns[4].rows = 3

====
